---------------------------- MODULE Spec2Model ----------------------------
(***************************************************************************)
(* start_local.py: a local static-file HTTP server.  main() resolves a     *)
(* port with find_free_port, binds a ThreadingHTTPServer in serve(),       *)
(* prints two URLs, starts serve_forever on a daemon thread, opens the     *)
(* browser, blocks in thread.join(), and shuts the server down in a        *)
(* finally block.                                                          *)
(*                                                                         *)
(* The model has the main thread's position (pc) at statement granularity, *)
(* the accept thread's position (tpc) inside socketserver's serve_forever, *)
(* the OS port table (busy), the sockets the program owns, the stdout      *)
(* lines, SIGINT delivery (KeyboardInterrupt raised in the main thread at  *)
(* its current statement), and the requests of the worker threads.         *)
(***************************************************************************)
EXTENDS Integers, Sequences, FiniteSets

(* ------------------------------ bounds -------------------------------- *)

\* how many times other processes bind or release a port during a run
MaxEnvSteps == 1

\* how many SIGINTs are delivered during a run
MaxInterrupts == 2

\* how many client connections arrive during a run
MaxRequests == 1

(* ------------------------- program constants -------------------------- *)

\* argparse default of --port
DefaultPort == 8000

\* range(8001, 8011): first port of the fallback scan
ScanLo == 8001

\* range(8001, 8011): one past the last port of the fallback scan
ScanHi == 8011

\* the scan written as range(8001, 8010): one candidate short
Candidates_shortScan(preferred) ==
    <<preferred>> \o [i \in 1..(ScanHi - ScanLo - 1) |-> ScanLo + i - 1]

\* the scan written as range(8000, 8011): it starts at the default port
Candidates_fromDefault(preferred) ==
    <<preferred>> \o [i \in 1..(ScanHi - DefaultPort) |-> DefaultPort + i - 1]

\* [preferred] + list(range(8001, 8011))
Candidates(preferred) ==
    <<preferred>> \o [i \in 1..(ScanHi - ScanLo) |-> ScanLo + i - 1]

\* ports the OS hands out for a bind to port 0
EphemeralPorts == {32768, 32769}

\* the ports of the fallback scan and the default port
ScanPorts == {DefaultPort} \cup (ScanLo..(ScanHi - 1))

\* the ports other processes bind and release in the model
EnvPorts == ScanPorts \cup EphemeralPorts

\* --port values of a run: 0 (any), the default, a port inside the scan range
PortArgs == {0, DefaultPort, ScanLo + 4}

\* port tables a full run starts from: no port taken, a contiguous block of
\* the scanned ports taken, or one of the OS-assigned ports taken
BusyBlocks ==
    {{}} \cup {a..b : a \in ScanPorts, b \in ScanPorts}
         \cup {{e} : e \in EphemeralPorts}

\* value of a port variable that has not been assigned yet
NoPort == 0 - 1

VARIABLES
    argsPort,        \* args.port
    busy,            \* ports other processes hold (a bind to them raises OSError)
    envSteps,        \* binds/releases done by other processes so far
    prefReleased,    \* another process released the preferred port during the run
    pc,              \* main thread: the statement it is at
    idx,             \* find_free_port: index of the candidate being probed
    probeOpen,       \* probe sockets of find_free_port that are open
    probeBound,      \* ports bound by open probe sockets of find_free_port
    probeLog,        \* find_free_port: <<port, bind succeeded>> of every probe so far
    port,            \* main: port = find_free_port(args.port)
    srvBound,        \* port the server's listening socket is bound to ({} if none)
    urlPort,         \* server.server_address[1], the port inside url
    srvBinds,        \* how many times a server socket was bound
    srvClosed,       \* httpd.server_close() has run
    stdout,          \* lines printed by main
    events,          \* main: the calls made so far, in order
    tpc,             \* accept thread: position in serve_forever
    shutdownRequest, \* BaseServer.__shutdown_request
    isShutDown,      \* BaseServer.__is_shut_down (threading.Event)
    interrupts,      \* SIGINTs delivered so far
    intrAfterStart,  \* a SIGINT was delivered after thread.start() returned
    caught,          \* the except KeyboardInterrupt clause was entered
    pending,         \* exception in flight while the finally block runs
    shutdownAt,      \* where the accept thread was when httpd.shutdown() was called
    exit,            \* "running", "ok" (status 0) or "error" (non-zero status)
    crashBy,         \* exception that terminated the process
    crashAt,         \* statement the terminating exception was raised at
    backlog,         \* connections waiting in the listen queue
    inflight,        \* requests being handled by worker threads
    served,          \* requests whose response was fully sent
    cutOff,          \* requests whose worker was killed mid-response
    arrived          \* connections made by clients so far

envVars == <<busy, envSteps, prefReleased>>
ffpVars == <<idx, probeOpen, probeBound, probeLog, port>>
srvVars == <<srvBound, urlPort, srvBinds, srvClosed>>
outVars == <<stdout, events>>
thrVars == <<tpc, shutdownRequest, isShutDown>>
sigVars == <<interrupts, intrAfterStart, caught, pending, shutdownAt>>
exitVars == <<exit, crashBy, crashAt>>
reqVars == <<backlog, inflight, served, cutOff, arrived>>

vars == <<argsPort, pc, envVars, ffpVars, srvVars, outVars, thrVars, sigVars,
          exitVars, reqVars>>

(* --------------------------- the OS port table ------------------------ *)

\* socket.bind(("127.0.0.1", p)), p /= 0: succeeds unless the port is held
BindOk(p) == p \notin (busy \cup probeBound \cup srvBound)

\* ports the OS may assign to a bind to port 0
Assignable == {p \in EphemeralPorts : BindOk(p)}

\* statements at which the program still has a bind ahead of it
BindAhead == {"start", "ffp", "ffp_any_bound", "ffp_scan", "ffp_hit",
              "ffp_none", "serve"}

\* another process binds a free port
EnvBind ==
    /\ exit = "running"
    /\ pc \in BindAhead
    /\ envSteps < MaxEnvSteps
    /\ \E p \in EnvPorts :
        /\ BindOk(p)
        /\ busy' = busy \cup {p}
    /\ envSteps' = envSteps + 1
    /\ UNCHANGED <<argsPort, pc, prefReleased, ffpVars, srvVars, outVars,
                   thrVars, sigVars, exitVars, reqVars>>

\* another process releases a port it holds
EnvRelease ==
    /\ exit = "running"
    /\ pc \in BindAhead
    /\ envSteps < MaxEnvSteps
    /\ \E p \in busy :
        /\ busy' = busy \ {p}
        /\ prefReleased' = (prefReleased \/ p = argsPort)
    /\ envSteps' = envSteps + 1
    /\ UNCHANGED <<argsPort, pc, ffpVars, srvVars, outVars,
                   thrVars, sigVars, exitVars, reqVars>>

(* ------------------------- process termination ------------------------ *)

\* the process ends: the OS closes its sockets, daemon threads are killed
\* with whatever request they were handling
ProcessExit(status, by) ==
    /\ pc' = "exited"
    /\ exit' = status
    /\ crashBy' = by
    /\ crashAt' = (IF status = "ok" THEN "none" ELSE pc)
    /\ probeOpen' = 0
    /\ probeBound' = {}
    /\ srvBound' = {}
    /\ backlog' = 0
    /\ cutOff' = cutOff + inflight
    /\ inflight' = 0

\* an exception leaves main: raise SystemExit(main()) never gets its value
Crash(by) ==
    /\ ProcessExit("error", by)
    /\ UNCHANGED <<argsPort, envVars, idx, probeLog, port, urlPort, srvBinds,
                   srvClosed, outVars, thrVars, served, arrived>>

(* --------------------------- find_free_port --------------------------- *)

\* parse_args, os.chdir, then the call find_free_port(args.port)
Start ==
    /\ exit = "running"
    /\ pc = "start"
    /\ pc' = "ffp"
    /\ UNCHANGED <<argsPort, envVars, ffpVars, srvVars, outVars, thrVars,
                   sigVars, exitVars, reqVars>>

\* if preferred == 0: ... else: for p in [...]
FfpEnter ==
    /\ exit = "running"
    /\ pc = "ffp"
    /\ IF argsPort = 0
       THEN IF Assignable = {}
            THEN /\ Crash("OSError")
                 /\ UNCHANGED sigVars
            ELSE /\ \E p \in Assignable : probeBound' = {p}
                 /\ probeOpen' = probeOpen + 1
                 /\ pc' = "ffp_any_bound"
                 /\ UNCHANGED <<argsPort, envVars, idx, probeLog, port, srvVars,
                                outVars, thrVars, sigVars, exitVars, reqVars>>
       ELSE /\ pc' = "ffp_scan"
            /\ idx' = 1
            /\ UNCHANGED <<argsPort, envVars, probeOpen, probeBound, probeLog,
                           port, srvVars, outVars, thrVars, sigVars, exitVars,
                           reqVars>>

\* return s.getsockname()[1]; contextlib.closing closes the probe socket
FfpReturnAny ==
    /\ exit = "running"
    /\ pc = "ffp_any_bound"
    /\ port' = (CHOOSE p \in probeBound : TRUE)
    /\ probeOpen' = probeOpen - 1
    /\ probeBound' = {}
    /\ pc' = "serve"
    /\ events' = Append(events, "resolve")
    /\ UNCHANGED <<argsPort, envVars, idx, probeLog, srvVars, stdout, thrVars,
                   sigVars, exitVars, reqVars>>

\* s.bind(("127.0.0.1", p)) succeeded: the socket holds p, next is return p
ProbeSuccess(p) ==
    /\ probeOpen' = probeOpen + 1
    /\ probeBound' = {p}
    /\ probeLog' = Append(probeLog, <<p, TRUE>>)
    /\ pc' = "ffp_hit"
    /\ UNCHANGED <<argsPort, envVars, idx, port, srvVars, outVars, thrVars,
                   sigVars, exitVars, reqVars>>

\* the bind not wrapped in try/except: the OSError leaves find_free_port
ProbeFailure_raise(p) ==
    /\ ProcessExit("error", "OSError")
    /\ UNCHANGED <<argsPort, envVars, idx, probeLog, port, urlPort, srvBinds,
                   srvClosed, outVars, thrVars, sigVars, served, arrived>>

\* except OSError: continue; the with block closes the socket that was opened
\* for this candidate, so the count of open probe sockets is what it was
ProbeFailure(p) ==
    /\ probeLog' = Append(probeLog, <<p, FALSE>>)
    /\ IF idx < Len(Candidates(argsPort))
       THEN /\ idx' = idx + 1
            /\ pc' = "ffp_scan"
       ELSE /\ idx' = idx
            /\ pc' = "ffp_none"
    /\ UNCHANGED <<argsPort, envVars, probeOpen, probeBound, port, srvVars,
                   outVars, thrVars, sigVars, exitVars, reqVars>>

\* one iteration of the for loop: open a probe socket and try to bind it
FfpProbe ==
    /\ exit = "running"
    /\ pc = "ffp_scan"
    /\ LET p == Candidates(argsPort)[idx]
       IN  IF BindOk(p) THEN ProbeSuccess(p) ELSE ProbeFailure(p)

\* return p with the probe socket left open (no contextlib.closing)
FfpReturn_leak ==
    /\ exit = "running"
    /\ pc = "ffp_hit"
    /\ port' = (CHOOSE p \in probeBound : TRUE)
    /\ pc' = "serve"
    /\ events' = Append(events, "resolve")
    /\ UNCHANGED <<argsPort, envVars, idx, probeOpen, probeBound, probeLog,
                   srvVars, stdout, thrVars, sigVars, exitVars, reqVars>>

\* return p: leaving the with block closes the probe socket
FfpReturn ==
    /\ exit = "running"
    /\ pc = "ffp_hit"
    /\ port' = (CHOOSE p \in probeBound : TRUE)
    /\ probeOpen' = probeOpen - 1
    /\ probeBound' = {}
    /\ pc' = "serve"
    /\ events' = Append(events, "resolve")
    /\ UNCHANGED <<argsPort, envVars, idx, probeLog, srvVars, stdout, thrVars,
                   sigVars, exitVars, reqVars>>

\* return 0 after the loop
FfpExhausted ==
    /\ exit = "running"
    /\ pc = "ffp_none"
    /\ port' = 0
    /\ pc' = "serve"
    /\ events' = Append(events, "resolve")
    /\ UNCHANGED <<argsPort, envVars, idx, probeOpen, probeBound, probeLog,
                   srvVars, stdout, thrVars, sigVars, exitVars, reqVars>>

(* -------------------------------- serve -------------------------------- *)

\* ThreadingHTTPServer(("127.0.0.1", port), ...): the constructor binds and
\* listens; port 0 lets the OS assign one; a failed bind raises OSError, which
\* nothing in serve or main catches.  url is built from server_address[1].
\* This is the program's last bind: the ports of other processes are not
\* tracked past it (busy is emptied), since nothing reads them afterwards.
ServeBind ==
    /\ exit = "running"
    /\ pc = "serve"
    /\ LET choices == IF port = 0 THEN Assignable
                      ELSE IF BindOk(port) THEN {port} ELSE {}
       IN  IF choices = {}
           THEN /\ Crash("OSError")
                /\ UNCHANGED sigVars
           ELSE /\ \E n \in choices :
                    /\ srvBound' = {n}
                    /\ urlPort' = n
                /\ srvBinds' = srvBinds + 1
                /\ pc' = "print"
                /\ busy' = {}
                /\ UNCHANGED <<argsPort, envSteps, prefReleased, ffpVars,
                               srvClosed, outVars, thrVars, sigVars, exitVars,
                               reqVars>>

(* --------------------------------- main ------------------------------- *)

\* the two URL lines printed only after thread.start(): nothing is printed here
PrintUrls_late ==
    /\ exit = "running"
    /\ pc = "print"
    /\ pc' = "thread_start"
    /\ UNCHANGED <<argsPort, envVars, ffpVars, srvVars, outVars, thrVars, sigVars,
                   exitVars, reqVars>>

\* print(f"Serving at: http://127.0.0.1:{port}"); print(f"Homepage:   {url}")
PrintUrls ==
    /\ exit = "running"
    /\ pc = "print"
    /\ stdout' = stdout \o <<<<"Serving at", port>>, <<"Homepage", urlPort>>>>
    /\ events' = Append(events, "print")
    /\ pc' = "thread_start"
    /\ UNCHANGED <<argsPort, envVars, ffpVars, srvVars, thrVars, sigVars,
                   exitVars, reqVars>>

\* thread = threading.Thread(target=httpd.serve_forever, daemon=True); thread.start()
ThreadStart ==
    /\ exit = "running"
    /\ pc = "thread_start"
    /\ tpc' = "clear"
    /\ events' = Append(events, "thread_start")
    /\ pc' = "started"
    /\ UNCHANGED <<argsPort, envVars, ffpVars, srvVars, stdout, shutdownRequest,
                   isShutDown, sigVars, exitVars, reqVars>>

\* thread.start() has returned; control enters the try block
EnterTry ==
    /\ exit = "running"
    /\ pc = "started"
    /\ pc' = "open"
    /\ UNCHANGED <<argsPort, envVars, ffpVars, srvVars, outVars, thrVars, sigVars,
                   exitVars, reqVars>>

\* webbrowser.open(url, new=2): returns True or False (the result is dropped),
\* or raises; an exception other than KeyboardInterrupt goes to the finally block
BrowserOpen ==
    /\ exit = "running"
    /\ pc = "open"
    /\ events' = Append(events, "browser_open")
    /\ \E raised \in BOOLEAN :
        IF raised
        THEN /\ pending' = "Exception"
             /\ pc' = "shutdown"
        ELSE /\ pending' = pending
             /\ pc' = "join_call"
    /\ UNCHANGED <<argsPort, envVars, ffpVars, srvVars, stdout, thrVars,
                   interrupts, intrAfterStart, caught, shutdownAt, exitVars,
                   reqVars>>

\* thread.join() is called: the main thread blocks on the accept thread
JoinCall ==
    /\ exit = "running"
    /\ pc = "join_call"
    /\ events' = Append(events, "join")
    /\ pc' = "join"
    /\ UNCHANGED <<argsPort, envVars, ffpVars, srvVars, stdout, thrVars, sigVars,
                   exitVars, reqVars>>

\* thread.join(timeout): returns although the accept thread is still running
JoinReturn_timeout ==
    /\ exit = "running"
    /\ pc = "join"
    /\ pc' = "shutdown"
    /\ UNCHANGED <<argsPort, envVars, ffpVars, srvVars, outVars, thrVars, sigVars,
                   exitVars, reqVars>>

\* thread.join() returns once the accept thread has ended; the try block is
\* left normally and the finally block runs
JoinReturn ==
    /\ exit = "running"
    /\ pc = "join"
    /\ tpc = "ended"
    /\ pc' = "shutdown"
    /\ UNCHANGED <<argsPort, envVars, ffpVars, srvVars, outVars, thrVars, sigVars,
                   exitVars, reqVars>>

\* except KeyboardInterrupt: print("\nShutting down...")
ExceptPrint ==
    /\ exit = "running"
    /\ pc = "except"
    /\ stdout' = Append(stdout, <<"Shutting down", 0>>)
    /\ pc' = "shutdown"
    /\ UNCHANGED <<argsPort, envVars, ffpVars, srvVars, events, thrVars, sigVars,
                   exitVars, reqVars>>

\* httpd.shutdown(), first statement: self.__shutdown_request = True
ShutdownRequest ==
    /\ exit = "running"
    /\ pc = "shutdown"
    /\ shutdownRequest' = TRUE
    /\ shutdownAt' = tpc
    /\ events' = Append(events, "shutdown")
    /\ pc' = "shutdown_wait"
    /\ UNCHANGED <<argsPort, envVars, ffpVars, srvVars, stdout, tpc, isShutDown,
                   interrupts, intrAfterStart, caught, pending, exitVars,
                   reqVars>>

\* shutdown() that only sets the flag and does not wait for the loop to end
ShutdownWait_noWait ==
    /\ exit = "running"
    /\ pc = "shutdown_wait"
    /\ pc' = "server_close"
    /\ UNCHANGED <<argsPort, envVars, ffpVars, srvVars, outVars, thrVars, sigVars,
                   exitVars, reqVars>>

\* httpd.shutdown(), second statement: self.__is_shut_down.wait() returns
\* when the event is set
ShutdownWait ==
    /\ exit = "running"
    /\ pc = "shutdown_wait"
    /\ isShutDown
    /\ pc' = "server_close"
    /\ UNCHANGED <<argsPort, envVars, ffpVars, srvVars, outVars, thrVars, sigVars,
                   exitVars, reqVars>>

\* httpd.server_close(): closes the listening socket; ThreadingHTTPServer has
\* daemon_threads = True, so no worker thread is tracked and none is joined
ServerClose ==
    /\ exit = "running"
    /\ pc = "server_close"
    /\ srvBound' = {}
    /\ srvClosed' = TRUE
    /\ backlog' = 0
    /\ events' = Append(events, "server_close")
    /\ pc' = "return"
    /\ UNCHANGED <<argsPort, envVars, ffpVars, urlPort, srvBinds, stdout, thrVars,
                   sigVars, exitVars, inflight, served, cutOff, arrived>>

\* the finally block is done: a pending exception is re-raised, otherwise
\* return 0 and raise SystemExit(0); the process ends either way
Return ==
    /\ exit = "running"
    /\ pc = "return"
    /\ IF pending = "none"
       THEN ProcessExit("ok", "none")
       ELSE ProcessExit("error", pending)
    /\ UNCHANGED <<argsPort, envVars, idx, probeLog, port, urlPort, srvBinds,
                   srvClosed, outVars, thrVars, sigVars, served, arrived>>

(* ------------------------------- SIGINT ------------------------------- *)

\* statements inside the try block of main
InTry == {"open", "join_call", "join"}

\* statements reached only after thread.start() has returned
AfterStart == {"started", "open", "join_call", "join", "except", "shutdown",
               "shutdown_wait", "server_close", "return"}

\* SIGINT: Python's handler raises KeyboardInterrupt in the main thread at the
\* statement it is executing.  Inside the try block the except clause takes
\* it; inside the except clause the finally block still runs and the exception
\* is re-raised after it; anywhere else (before the try, inside the finally
\* block, at return 0) it leaves main.
Interrupt ==
    /\ exit = "running"
    /\ interrupts < MaxInterrupts
    /\ interrupts' = interrupts + 1
    /\ intrAfterStart' = (intrAfterStart \/ pc \in AfterStart)
    /\ IF pc \in InTry
       THEN /\ pc' = "except"
            /\ caught' = TRUE
            /\ UNCHANGED <<argsPort, envVars, ffpVars, srvVars, outVars, thrVars,
                           pending, shutdownAt, exitVars, reqVars>>
       ELSE IF pc = "except"
       THEN /\ pc' = "shutdown"
            /\ pending' = "KeyboardInterrupt"
            /\ UNCHANGED <<argsPort, envVars, ffpVars, srvVars, outVars, thrVars,
                           caught, shutdownAt, exitVars, reqVars>>
       ELSE /\ Crash("KeyboardInterrupt")
            /\ UNCHANGED <<caught, pending, shutdownAt>>

(* ---------------------- accept thread: serve_forever ------------------- *)

\* self.__is_shut_down.clear()
SfClear ==
    /\ exit = "running"
    /\ tpc = "clear"
    /\ isShutDown' = FALSE
    /\ tpc' = "loop_check"
    /\ UNCHANGED <<argsPort, pc, envVars, ffpVars, srvVars, outVars,
                   shutdownRequest, sigVars, exitVars, reqVars>>

\* while not self.__shutdown_request:
SfLoopCheck ==
    /\ exit = "running"
    /\ tpc = "loop_check"
    /\ tpc' = (IF shutdownRequest THEN "finally_reset" ELSE "select")
    /\ UNCHANGED <<argsPort, pc, envVars, ffpVars, srvVars, outVars,
                   shutdownRequest, isShutDown, sigVars, exitVars, reqVars>>

\* ready = selector.select(poll_interval); if self.__shutdown_request: break;
\* if ready: self._handle_request_noblock(), which accepts the connection and
\* hands it to a new worker thread (ThreadingMixIn.process_request)
SfSelect ==
    /\ exit = "running"
    /\ tpc = "select"
    /\ IF shutdownRequest
       THEN /\ tpc' = "finally_reset"
            /\ UNCHANGED reqVars
       ELSE /\ tpc' = "loop_check"
            /\ IF backlog > 0
               THEN /\ backlog' = backlog - 1
                    /\ inflight' = inflight + 1
                    /\ UNCHANGED <<served, cutOff, arrived>>
               ELSE UNCHANGED reqVars
    /\ UNCHANGED <<argsPort, pc, envVars, ffpVars, srvVars, outVars,
                   shutdownRequest, isShutDown, sigVars, exitVars>>

\* an exception leaves the loop (selector.select or service_actions raising):
\* the accept thread ends by itself through the finally clause
SfDie ==
    /\ exit = "running"
    /\ tpc \in {"loop_check", "select"}
    /\ tpc' = "finally_reset"
    /\ UNCHANGED <<argsPort, pc, envVars, ffpVars, srvVars, outVars,
                   shutdownRequest, isShutDown, sigVars, exitVars, reqVars>>

\* finally: self.__shutdown_request = False
SfFinallyReset ==
    /\ exit = "running"
    /\ tpc = "finally_reset"
    /\ shutdownRequest' = FALSE
    /\ tpc' = "finally_set"
    /\ UNCHANGED <<argsPort, pc, envVars, ffpVars, srvVars, outVars, isShutDown,
                   sigVars, exitVars, reqVars>>

\* serve_forever ending without self.__is_shut_down.set()
SfFinallySet_noSet ==
    /\ exit = "running"
    /\ tpc = "finally_set"
    /\ tpc' = "ended"
    /\ UNCHANGED <<argsPort, pc, envVars, ffpVars, srvVars, outVars,
                   shutdownRequest, isShutDown, sigVars, exitVars, reqVars>>

\* finally: self.__is_shut_down.set(); serve_forever returns, the thread ends
SfFinallySet ==
    /\ exit = "running"
    /\ tpc = "finally_set"
    /\ isShutDown' = TRUE
    /\ tpc' = "ended"
    /\ UNCHANGED <<argsPort, pc, envVars, ffpVars, srvVars, outVars,
                   shutdownRequest, sigVars, exitVars, reqVars>>

(* ------------------------- clients and workers ------------------------ *)

\* a client connects to the listening socket
ClientConnect ==
    /\ exit = "running"
    /\ srvBound /= {}
    /\ arrived < MaxRequests
    /\ arrived' = arrived + 1
    /\ backlog' = backlog + 1
    /\ UNCHANGED <<argsPort, pc, envVars, ffpVars, srvVars, outVars, thrVars,
                   sigVars, exitVars, inflight, served, cutOff>>

\* a worker thread finishes its request: the response is fully sent
WorkerFinish ==
    /\ exit = "running"
    /\ inflight > 0
    /\ inflight' = inflight - 1
    /\ served' = served + 1
    /\ UNCHANGED <<argsPort, pc, envVars, ffpVars, srvVars, outVars, thrVars,
                   sigVars, exitVars, backlog, cutOff, arrived>>

(* --------------------------- specifications --------------------------- *)

\* the state every run starts in, but for the --port value and the port table
InitRest ==
    /\ envSteps = 0
    /\ prefReleased = FALSE
    /\ pc = "start"
    /\ idx = 1
    /\ probeOpen = 0
    /\ probeBound = {}
    /\ probeLog = <<>>
    /\ port = NoPort
    /\ srvBound = {}
    /\ urlPort = NoPort
    /\ srvBinds = 0
    /\ srvClosed = FALSE
    /\ stdout = <<>>
    /\ events = <<>>
    /\ tpc = "unstarted"
    /\ shutdownRequest = FALSE
    /\ isShutDown = FALSE
    /\ interrupts = 0
    /\ intrAfterStart = FALSE
    /\ caught = FALSE
    /\ pending = "none"
    /\ shutdownAt = "none"
    /\ exit = "running"
    /\ crashBy = "none"
    /\ crashAt = "none"
    /\ backlog = 0
    /\ inflight = 0
    /\ served = 0
    /\ cutOff = 0
    /\ arrived = 0

Init ==
    /\ argsPort \in PortArgs
    /\ busy \in BusyBlocks
    /\ InitRest

\* the steps of the main thread
MainStep ==
    \/ Start
    \/ FfpEnter
    \/ FfpReturnAny
    \/ FfpProbe
    \/ FfpReturn
    \/ FfpExhausted
    \/ ServeBind
    \/ PrintUrls
    \/ ThreadStart
    \/ EnterTry
    \/ BrowserOpen
    \/ JoinCall
    \/ JoinReturn
    \/ ExceptPrint
    \/ ShutdownRequest
    \/ ShutdownWait
    \/ ServerClose
    \/ Return

\* the steps serve_forever takes when nothing fails
AcceptStep ==
    \/ SfClear
    \/ SfLoopCheck
    \/ SfSelect
    \/ SfFinallyReset
    \/ SfFinallySet

Next ==
    \/ MainStep
    \/ AcceptStep
    \/ SfDie
    \/ Interrupt
    \/ EnvBind
    \/ EnvRelease
    \/ ClientConnect
    \/ WorkerFinish

Spec == Init /\ [][Next]_vars

\* runs for the shutdown handshake: the port table starts empty, with the
\* default port taken, with every scanned port taken, or with one of the
\* OS-assigned ports taken
LiveInit ==
    /\ argsPort \in PortArgs
    /\ busy \in {{}, {DefaultPort}, ScanPorts} \cup {{e} : e \in EphemeralPorts}
    /\ InitRest

\* the scheduler runs every thread that can run: the main thread, the accept
\* thread and the worker threads
LiveSpec ==
    /\ LiveInit
    /\ [][Next]_vars
    /\ WF_vars(MainStep)
    /\ WF_vars(AcceptStep)
    /\ WF_vars(WorkerFinish)

\* find_free_port alone, for every set of taken ports among the scanned ones
ScanInit ==
    /\ argsPort \in PortArgs
    /\ busy \in (SUBSET ScanPorts) \cup {{e} : e \in EphemeralPorts}
    /\ InitRest

ScanNext ==
    \/ Start
    \/ FfpEnter
    \/ FfpReturnAny
    \/ FfpProbe
    \/ FfpReturn
    \/ FfpExhausted
    \/ EnvBind
    \/ EnvRelease

ScanSpec == ScanInit /\ [][ScanNext]_vars

(* ------------------------------ lifecycle ----------------------------- *)

\* the lifecycle state of section 4.3, read off the main thread's position
Lifecycle ==
    CASE pc = "start" -> "Idle"
      [] pc \in {"ffp", "ffp_any_bound", "ffp_scan", "ffp_hit", "ffp_none",
                 "serve"} -> "Resolving"
      [] pc \in {"print", "thread_start", "started", "open", "join_call",
                 "join", "except"} -> "Serving"
      [] pc \in {"shutdown", "shutdown_wait", "server_close", "return"}
            -> "ShuttingDown"
      [] OTHER -> "Stopped"

(* =============================== claims =============================== *)

\* the sequence P, 8001, 8002, ..., 8010 of the claims
ClaimSeq(P) == <<P, 8001, 8002, 8003, 8004, 8005, 8006, 8007, 8008, 8009, 8010>>

\* the first port of seq that is not in taken, 0 if there is none
RECURSIVE FirstFree(_, _)
FirstFree(seq, taken) ==
    IF seq = <<>> THEN 0
    ELSE IF Head(seq) \notin taken THEN Head(seq)
    ELSE FirstFree(Tail(seq), taken)

\* find_free_port has returned
FfpReturned == port /= NoPort

\* the preferred port was in use when find_free_port probed it
FirstProbeFailed == Len(probeLog) >= 1 /\ probeLog[1] = <<argsPort, FALSE>>

\* C1: for P /= 0, find_free_port(P) probes P, 8001, ..., 8010 in this order,
\* stops at the first probe whose bind succeeds and returns that port; it
\* returns 0 exactly when all eleven probe binds failed; when no other process
\* changes the port table during the scan the result is the first port of the
\* sequence that is not taken; no probe socket is open when the next candidate
\* is tried or when the function has returned.
C1_FirstBindable ==
    /\ (pc \in {"ffp_scan", "ffp_none"} \/ FfpReturned) => probeOpen = 0
    /\ (pc \in {"ffp_scan", "ffp_none"} \/ FfpReturned) => probeBound = {}
    /\ (argsPort /= 0) =>
         LET seq == ClaimSeq(argsPort)
             n   == Len(probeLog)
         IN  /\ n <= Len(seq)
             /\ \A i \in 1..n : probeLog[i][1] = seq[i]
             /\ \A i \in 1..(n - 1) : probeLog[i][2] = FALSE
             /\ FfpReturned =>
                  /\ n >= 1
                  /\ port /= 0 => probeLog[n] = <<port, TRUE>>
                  /\ port = 0 <=>
                       (n = Len(seq) /\ \A i \in 1..n : probeLog[i][2] = FALSE)
                  /\ envSteps = 0 => port = FirstFree(seq, busy)

\* C1 witness: a scan that skipped taken candidates and returned a later
\* free one, and a scan that found all eleven taken
C1_Witness ==
    /\ argsPort /= 0
    /\ FfpReturned
    /\ envSteps = 0
    /\ Len(probeLog) >= 3
    /\ port = probeLog[Len(probeLog)][1]
    /\ probeLog[Len(probeLog)][2] = TRUE

\* C2 as stated: for P /= 0 in use at its probe, find_free_port raises nothing
\* and returns 0 or a port of 8001..8010 different from P, also for P inside
\* 8001..8010 and when other processes bind or release ports during the scan.
C2_Original ==
    (argsPort /= 0 /\ FirstProbeFailed) =>
        /\ exit = "running"
        /\ FfpReturned =>
             /\ port = 0 \/ port \in 8001..8010
             /\ port /= argsPort

\* C2 amended: for P /= 0 in use at its probe, find_free_port raises nothing
\* and returns 0 or a port of 8001..8010; the port differs from P unless P is
\* inside 8001..8010 and another process released it during the scan.
C2_DifferentUnlessReleased ==
    (argsPort /= 0 /\ FirstProbeFailed) =>
        /\ exit = "running"
        /\ FfpReturned =>
             /\ port = 0 \/ port \in 8001..8010
             /\ port = argsPort => (prefReleased /\ argsPort \in 8001..8010)

\* C2 witness: P inside 8001..8010 was in use at its first probe, another
\* process released it during the scan, and the second probe of P returned it
C2_Witness ==
    /\ argsPort \in 8001..8010
    /\ FirstProbeFailed
    /\ prefReleased
    /\ FfpReturned
    /\ port = argsPort

\* C3 as stated: a run in which an interrupt was delivered after thread.start()
\* returned ends with the shutdown notice printed, shutdown() and
\* server_close() called, the socket unbound and exit status 0.
C3_Original ==
    (exit /= "running" /\ intrAfterStart) =>
        /\ exit = "ok"
        /\ \E i \in 1..Len(stdout) : stdout[i][1] = "Shutting down"
        /\ \E i \in 1..Len(events) : events[i] = "shutdown"
        /\ srvClosed
        /\ srvBound = {}

\* C4 as stated: once the two lines are printed, the port of the 'Serving at'
\* line is the port the listening socket is bound to and the port of the
\* Homepage URL.
C4_Original ==
    (Len(stdout) >= 2) =>
        /\ stdout[1][2] = stdout[2][2]
        /\ stdout[1][2] = urlPort
        /\ srvBound /= {} => srvBound = {stdout[1][2]}

\* C5 as stated: no failed bind, of a probe or of the server socket, ever
\* terminates the program with an error.
C5_Original == crashBy /= "OSError"

\* C5 amended: a failed probe bind inside the scan loop of find_free_port is
\* always recovered (next candidate, or return 0 after the last) and never
\* terminates the program; an OSError terminates the program only from the
\* server's bind in serve(port) or from the unguarded port-0 probe bind.
C5_ProbeFailuresRecovered ==
    /\ crashBy = "OSError" => crashAt \in {"serve", "ffp"}
    /\ (crashBy = "OSError" /\ crashAt = "ffp") => argsPort = 0
    /\ pc = "ffp_scan" =>
         /\ idx = Len(probeLog) + 1
         /\ \A i \in 1..Len(probeLog) : probeLog[i][2] = FALSE
    /\ pc = "ffp_none" =>
         /\ Len(probeLog) = Len(ClaimSeq(argsPort))
         /\ \A i \in 1..Len(probeLog) : probeLog[i][2] = FALSE

\* C5 witness: a probe bind failed and was recovered, a later probe chose a
\* port, and the server's bind to that port failed and ended the program
C5_Witness ==
    /\ crashBy = "OSError"
    /\ crashAt = "serve"
    /\ Len(probeLog) >= 2
    /\ probeLog[1][2] = FALSE
    /\ port /= 0

\* the lifecycle moves forward one state at a time, or ends (Stopped)
LifecycleStepOk ==
    LET rank(l) == CASE l = "Idle" -> 0 [] l = "Resolving" -> 1
                     [] l = "Serving" -> 2 [] l = "ShuttingDown" -> 3
                     [] OTHER -> 4
    IN  \/ Lifecycle' = Lifecycle
        \/ rank(Lifecycle') = rank(Lifecycle) + 1
        \/ Lifecycle' = "Stopped"

\* a step from Serving to ShuttingDown
EntersShutdown == Lifecycle = "Serving" /\ Lifecycle' = "ShuttingDown"

\* C6 as stated: the lifecycle only moves forward, and the step from Serving
\* to ShuttingDown is taken only after an interrupt has been delivered.
C6_Original ==
    [][LifecycleStepOk /\ (EntersShutdown => interrupts > 0)]_vars

\* C6 amended: the lifecycle only moves forward (or ends), and the step from
\* Serving to ShuttingDown is taken when main enters its finally block: after
\* a caught interrupt, or when webbrowser.open raises, or when thread.join()
\* returns because the accept thread has ended.
C6_ShutdownCauses ==
    [][/\ LifecycleStepOk
       /\ EntersShutdown =>
            \/ pc = "except" /\ caught
            \/ pc = "open" /\ pending' = "Exception"
            \/ pc = "join" /\ tpc = "ended"]_vars

\* C6 witness: shutdown was entered with no interrupt delivered and no
\* exception raised: thread.join() returned by itself
C6_Witness ==
    /\ Lifecycle = "ShuttingDown"
    /\ interrupts = 0
    /\ pending = "none"
    /\ tpc = "ended"

\* is a a prefix of b
IsPrefix(a, b) == Len(a) <= Len(b) /\ \A i \in 1..Len(a) : a[i] = b[i]

\* a call of the startup sequence (not one of the shutdown sequence)
IsStartupEvent(e) ==
    e \in {"resolve", "print", "thread_start", "browser_open", "join"}

\* the startup calls main has made, in the order it made them
StartupEvents == SelectSeq(events, IsStartupEvent)

\* C7 as stated: port resolved, accept thread started, URL lines printed,
\* browser opened, main blocks on the accept thread, in this order.
C7_Original ==
    IsPrefix(StartupEvents,
             <<"resolve", "thread_start", "print", "browser_open", "join">>)

\* C7 amended: port resolved, URL lines printed, accept thread started,
\* browser opened, main blocks on the accept thread, in this order (a run
\* that ends early has made a prefix of these calls).
C7_PrintBeforeThread ==
    /\ IsPrefix(StartupEvents,
                <<"resolve", "print", "thread_start", "browser_open", "join">>)
    /\ tpc /= "unstarted" => Len(stdout) >= 2

\* C7 witness: all five startup calls were made
C7_Witness ==
    /\ Len(events) >= 5
    /\ events[5] = "join"
    /\ Len(stdout) >= 2

\* C8: the program never owns more than one bound socket; no probe socket is
\* open once find_free_port has returned (so none is when serve() binds); the
\* server socket is bound at most once and stays unbound after server_close().
C8_OneListener ==
    /\ Cardinality(probeBound) + Cardinality(srvBound) <= 1
    /\ probeOpen <= 1
    /\ FfpReturned => (probeOpen = 0 /\ probeBound = {})
    /\ srvBound /= {} => probeOpen = 0
    /\ srvBinds <= 1
    /\ srvClosed => srvBound = {}

\* C8 witness: a probe bound the port, the server was bound to it once, and
\* server_close() has released it
C8_Witness ==
    /\ Len(probeLog) >= 1
    /\ srvBinds = 1
    /\ srvClosed
    /\ pc = "return"

\* C9: once main has called httpd.shutdown(), the wait ends in every fair
\* interleaving with the accept thread, server_close() runs and main leaves;
\* the only other way out of shutdown() is a KeyboardInterrupt raised in it.
C9_ShutdownReturns ==
    (pc = "shutdown_wait") ~>
        \/ srvClosed /\ exit /= "running"
        \/ crashBy = "KeyboardInterrupt"

\* C9 witness: shutdown() was called before serve_forever had entered its
\* loop, and main has closed the server and returned 0
C9_Witness ==
    /\ shutdownAt = "clear"
    /\ srvClosed
    /\ exit = "ok"

\* C10 as stated: after an interrupt-triggered shutdown, no request is still
\* being handled when the listening socket is released, and none was cut off.
C10_Original ==
    (caught /\ srvClosed) => (inflight = 0 /\ cutOff = 0)

\* C10 amended: on shutdown the accept loop has ended before the listening
\* socket is released, so no new connection is accepted; requests that worker
\* threads are still handling are not waited for and can be cut off when the
\* process exits.
C10_StopsAccepting ==
    /\ (pc \in {"server_close", "return"} \/ srvClosed) => tpc = "ended"
    /\ srvClosed => backlog = 0

\* C10 witness: interrupt-triggered shutdown returned 0 while a worker was
\* still handling a request, which was cut off
C10_Witness ==
    /\ caught
    /\ exit = "ok"
    /\ cutOff > 0

=============================================================================
